---- MODULE Spec2Model ----
(***************************************************************************)
(* Model of src/chatbot.py: the POST /chat handler chat_endpoint, the      *)
(* library data client fetch_library_data and get_campus_id.               *)
(*                                                                         *)
(* Text is modelled as a sequence of one-character strings, so that the    *)
(* substring tests, lower(), strip() and the module-code regular           *)
(* expression are computed on characters as Python computes them.          *)
(* An enrichment block is a header tag plus the sequence of records it     *)
(* renders, one line per record.                                           *)
(***************************************************************************)
EXTENDS Integers, Sequences, FiniteSets, TLC

VARIABLES pc, message, context, messages, library_context, libLog, payloads, completion, response

vars == <<pc, message, context, messages, library_context, libLog, payloads, completion, response>>

(* ------------------------------ bounds --------------------------------- *)
MaxWords == 2
MaxContext == 4
MaxRecords == 6

(* -------------------------- program constants -------------------------- *)
ContextWindow == 3
BookLimit == 5
ComputerLimit == 5
SeatLimit == 5
StudyRoomLimit == 3
DuplicateComputerLimit == 3
AnnouncementQueryLimit == 3
FallbackPage == 1
FallbackPerPage == 5
SiyabuswaCampus == 2
DefaultCampus == 1

(* ------------------------------ characters ----------------------------- *)
UpperSeq == <<"A","B","C","D","E","F","G","H","I","J","K","L","M",
              "N","O","P","Q","R","S","T","U","V","W","X","Y","Z">>
LowerSeq == <<"a","b","c","d","e","f","g","h","i","j","k","l","m",
              "n","o","p","q","r","s","t","u","v","w","x","y","z">>
Upper == {UpperSeq[i] : i \in 1..26}
Lower == {LowerSeq[i] : i \in 1..26}
Digit == {"0","1","2","3","4","5","6","7","8","9"}
Space == {" ", "\t", "\n"}
WordChar == Upper \cup Lower \cup Digit \cup {"_"}

LowerChar(c) == IF c \in Upper THEN LowerSeq[CHOOSE i \in 1..26 : UpperSeq[i] = c] ELSE c

ToLower(s) == [i \in 1..Len(s) |-> LowerChar(s[i])]

IsBlank(s) == \A i \in 1..Len(s) : s[i] \in Space

Contains(s, t) == \E i \in 0..(Len(s) - Len(t)) : SubSeq(s, i + 1, i + Len(t)) = t

Min(a, b) == IF a < b THEN a ELSE b

Take(s, n) == SubSeq(s, 1, Min(n, Len(s)))

FirstN(s, n) == SubSeq(s, 1, IF Len(s) < n THEN Len(s) ELSE n)

LastN(s, n) == IF Len(s) <= n THEN s ELSE SubSeq(s, Len(s) - n + 1, Len(s))

SelectFree(s) == SelectSeq(s, LAMBDA r : r = "free")

SelectActive(s) == SelectSeq(s, LAMBDA r : r # "inactive")

(* ------------------------------- keywords ------------------------------ *)
kw_book == <<"b","o","o","k">>
kw_textbook == <<"t","e","x","t","b","o","o","k">>
kw_library == <<"l","i","b","r","a","r","y">>
kw_seat == <<"s","e","a","t">>
kw_computer == <<"c","o","m","p","u","t","e","r">>
kw_room == <<"r","o","o","m">>
kw_announcement == <<"a","n","n","o","u","n","c","e","m","e","n","t">>
kw_news == <<"n","e","w","s">>
kw_hour == <<"h","o","u","r">>
kw_open == <<"o","p","e","n">>
kw_close == <<"c","l","o","s","e">>
kw_study_room == <<"s","t","u","d","y"," ","r","o","o","m">>
kw_group_study == <<"g","r","o","u","p"," ","s","t","u","d","y">>
kw_venue == <<"v","e","n","u","e">>
kw_siyabuswa == <<"s","i","y","a","b","u","s","w","a">>

GateKeywordsWithNews == {kw_book, kw_library, kw_seat, kw_computer, kw_room,
                         kw_announcement, kw_hour, kw_study_room, kw_venue, kw_news}

GateKeywords == {kw_book, kw_library, kw_seat, kw_computer, kw_room,
                 kw_announcement, kw_hour, kw_study_room, kw_venue}

GatePasses(um) == \E k \in GateKeywords : Contains(um, k)

SubIntentSeatFirst(um) ==
    IF Contains(um, kw_book) \/ Contains(um, kw_textbook) THEN "book"
    ELSE IF Contains(um, kw_seat) THEN "seat"
    ELSE IF Contains(um, kw_computer) THEN "computer"
    ELSE IF Contains(um, kw_announcement) \/ Contains(um, kw_news) THEN "announcement"
    ELSE IF Contains(um, kw_hour) \/ Contains(um, kw_open) \/ Contains(um, kw_close) THEN "hours"
    ELSE IF Contains(um, kw_study_room) \/ Contains(um, kw_group_study) THEN "study_room"
    ELSE IF Contains(um, kw_room) \/ Contains(um, kw_venue) THEN "room"
    ELSE "none"

SubIntent(um) ==
    IF Contains(um, kw_book) \/ Contains(um, kw_textbook) THEN "book"
    ELSE IF Contains(um, kw_computer) THEN "computer"
    ELSE IF Contains(um, kw_seat) THEN "seat"
    ELSE IF Contains(um, kw_announcement) \/ Contains(um, kw_news) THEN "announcement"
    ELSE IF Contains(um, kw_hour) \/ Contains(um, kw_open) \/ Contains(um, kw_close) THEN "hours"
    ELSE IF Contains(um, kw_study_room) \/ Contains(um, kw_group_study) THEN "study_room"
    ELSE IF Contains(um, kw_computer) THEN "computer_duplicate"
    ELSE IF Contains(um, kw_room) \/ Contains(um, kw_venue) THEN "room"
    ELSE "none"

get_campus_id(m) == IF Contains(ToLower(m), kw_siyabuswa) THEN SiyabuswaCampus ELSE DefaultCampus

(* -------------------- module code: \b[A-Z]{3}[0-9]{4}\b ----------------- *)
NoModule == <<>>

ModuleMatchAtNoBoundary(s, i) ==
    /\ i + 6 <= Len(s)
    /\ \A k \in 0..2 : s[i + k] \in Upper
    /\ \A k \in 3..6 : s[i + k] \in Digit

ModuleMatchAt(s, i) ==
    /\ i + 6 <= Len(s)
    /\ \A k \in 0..2 : s[i + k] \in Upper
    /\ \A k \in 3..6 : s[i + k] \in Digit
    /\ (i = 1 \/ s[i - 1] \notin WordChar)
    /\ (i + 6 = Len(s) \/ s[i + 7] \notin WordChar)

ModuleCode(s) ==
    IF \E i \in 1..Len(s) : ModuleMatchAt(s, i)
    THEN LET i0 == CHOOSE i \in 1..Len(s) :
                     /\ ModuleMatchAt(s, i)
                     /\ \A j \in 1..(i - 1) : ~ModuleMatchAt(s, j)
         IN SubSeq(s, i0, i0 + 6)
    ELSE NoModule

(* ------------------------- requests: messages -------------------------- *)
w_study == <<"s","t","u","d","y">>
w_group == <<"g","r","o","u","p">>
w_hello == <<"h","e","l","l","o">>
w_Book == <<"B","o","o","k">>
w_Siyabuswa == <<"S","i","y","a","b","u","s","w","a">>
w_INF1511 == <<"I","N","F","1","5","1","1">>
w_xINF1511 == <<"x","I","N","F","1","5","1","1">>
w_INF15112 == <<"I","N","F","1","5","1","1","2">>
w_inf1511 == <<"i","n","f","1","5","1","1">>
w_ABC1234 == <<"A","B","C","1","2","3","4">>
w_INF1511_q == <<"I","N","F","1","5","1","1","?">>

RECURSIVE Phrase(_)
Phrase(ws) ==
    IF Len(ws) = 0 THEN <<>>
    ELSE IF Len(ws) = 1 THEN ws[1]
    ELSE ws[1] \o <<" ">> \o Phrase(Tail(ws))

Vocabulary == {kw_book, kw_textbook, kw_library, kw_seat, kw_computer, kw_room,
               kw_announcement, kw_news, kw_hour, kw_open, kw_close, kw_venue,
               w_study, w_group, w_hello, w_Book, w_Siyabuswa,
               w_INF1511, w_xINF1511, w_INF15112, w_inf1511, w_ABC1234, w_INF1511_q}

WordMessages == {Phrase(ws) : ws \in UNION {[1..n -> Vocabulary] : n \in 0..MaxWords}}

SampleMessages ==
    { <<>>, <<" ">>, <<"\t", " ", "\n">>,
      Phrase(<<w_hello>>),
      Phrase(<<kw_book>>),
      Phrase(<<kw_textbook, w_INF1511>>),
      Phrase(<<kw_computer, kw_room>>),
      Phrase(<<kw_seat>>),
      Phrase(<<w_Siyabuswa, kw_seat>>),
      Phrase(<<kw_library>>),
      Phrase(<<kw_library, kw_news>>),
      Phrase(<<kw_news>>),
      Phrase(<<kw_library, kw_open>>),
      Phrase(<<kw_hour>>),
      Phrase(<<w_study, kw_room>>),
      Phrase(<<w_group, w_study>>),
      Phrase(<<kw_room>>),
      Phrase(<<kw_venue>>) }

(* ------------------------- requests: context --------------------------- *)
NoEnrichment == [header |-> "", lines |-> <<>>]

ContextEntry(i) ==
    [role |-> IF i % 2 = 1 THEN "user" ELSE "assistant", kind |-> "context",
     turn |-> i, text |-> <<>>, block |-> NoEnrichment]

NoContext == [present |-> FALSE, entries |-> <<>>]

Contexts ==
    {NoContext} \cup
    {[present |-> TRUE, entries |-> [i \in 1..n |-> ContextEntry(i)]] : n \in 0..MaxContext}

(* --------------------------- conversation ------------------------------ *)
SCCS_SYSTEM_PROMPT ==
    [role |-> "system", kind |-> "prompt", turn |-> 0, text |-> <<>>, block |-> NoEnrichment]

EnrichmentMessage(lc) ==
    [role |-> "system", kind |-> "enrichment", turn |-> 0, text |-> <<>>, block |-> lc]

UserMessage(m) ==
    [role |-> "user", kind |-> "user", turn |-> 0, text |-> m, block |-> NoEnrichment]

(* ---------------- values returned by fetch_library_data ---------------- *)
NoData == [kind |-> "none", records |-> <<>>]
DictEmpty == [kind |-> "dict_empty", records |-> <<>>]
DictOther == [kind |-> "dict_other", records |-> <<>>]
Scalar == [kind |-> "scalar", records |-> <<>>]
ListOf(recs) == [kind |-> "list", records |-> recs]
DictItems(recs) == [kind |-> "dict_items", records |-> recs]

RecordsOf(path) == IF path = "seats/availability" THEN {"free", "occupied"} ELSE {"rec"}

RecordLists(path) == UNION {[1..n -> RecordsOf(path)] : n \in 0..MaxRecords}

Paths == {"books", "computers", "seats/availability", "announcements", "hours",
          "study_rooms", "rooms"}

ShapesOf(path) ==
    {NoData, DictEmpty, DictOther, Scalar}
      \cup {ListOf(r) : r \in RecordLists(path)}
      \cup {DictItems(r) : r \in RecordLists(path)}

Shapes == [path \in Paths |-> ShapesOf(path)]

RouterShapes == [path \in Paths |-> {NoData, ListOf(<<"rec">>), DictItems(<<"rec">>)}]

Truthy(r) ==
    \/ r.kind \in {"dict_items", "dict_other", "scalar"}
    \/ r.kind = "list" /\ r.records # <<>>

(* --------------------------- library queries --------------------------- *)
BooksQuery(m) ==
    [path |-> "books", campus |-> 0,
     keys |-> IF ModuleCode(m) # NoModule THEN {"q", "module"} ELSE {"q"},
     q |-> m, module |-> ModuleCode(m), page |-> 0, per_page |-> 0, limit |-> 0]

BooksFirstPage ==
    [path |-> "books", campus |-> 0, keys |-> {"page", "per_page"},
     q |-> <<>>, module |-> NoModule, page |-> FallbackPage,
     per_page |-> FallbackPerPage, limit |-> 0]

PlainQuery(path, campus, keys, limit) ==
    [path |-> path, campus |-> campus, keys |-> keys,
     q |-> <<>>, module |-> NoModule, page |-> 0, per_page |-> 0, limit |-> limit]

SubIntentQuery(branch, campus) ==
    CASE branch = "computer" -> PlainQuery("computers", campus, {}, 0)
      [] branch = "seat" -> PlainQuery("seats/availability", campus, {}, 0)
      [] branch = "announcement" -> PlainQuery("announcements", 0, {"limit"}, AnnouncementQueryLimit)
      [] branch = "hours" -> PlainQuery("hours", campus, {}, 0)
      [] branch = "study_room" -> PlainQuery("study_rooms", 0, {}, 0)
      [] branch = "computer_duplicate" -> PlainQuery("computers", campus, {}, 0)
      [] branch = "room" -> PlainQuery("rooms", campus, {}, 0)

(* ----------------------------- formatting ------------------------------ *)
FormatBooksUncapped(items) == [header |-> "Here are some books you might like:", lines |-> items]

FormatBooks(items) == [header |-> "Here are some books you might like:", lines |-> Take(items, BookLimit)]

Clarification ==
    [header |-> "I'm sorry, I couldn't find any books. Could you provide a title, author, or module code?",
     lines |-> <<>>]

FormatComputers(recs) == [header |-> "Available Computers:", lines |-> Take(recs, ComputerLimit)]

FormatSeats(recs) == [header |-> "Available Seats:", lines |-> Take(SelectFree(recs), SeatLimit)]

FormatAnnouncements(recs) == [header |-> "Latest Announcements:", lines |-> recs]

FormatHours(recs) == [header |-> "Library Hours:", lines |-> recs]

FormatStudyRooms(recs) == [header |-> "Study Rooms:", lines |-> Take(recs, StudyRoomLimit)]

FormatComputersDuplicate(recs) ==
    [header |-> "Available Computers:", lines |-> SelectActive(Take(recs, DuplicateComputerLimit))]

FormatRooms(recs) == [header |-> "Available Rooms:", lines |-> recs]

Format(branch, recs) ==
    CASE branch = "computer" -> FormatComputers(recs)
      [] branch = "seat" -> FormatSeats(recs)
      [] branch = "announcement" -> FormatAnnouncements(recs)
      [] branch = "hours" -> FormatHours(recs)
      [] branch = "study_room" -> FormatStudyRooms(recs)
      [] branch = "computer_duplicate" -> FormatComputersDuplicate(recs)
      [] branch = "room" -> FormatRooms(recs)

(* ------------------------------ responses ------------------------------ *)
NoResponse == [status |-> 0, reply |-> ""]
BusyReply == [status |-> 200, reply |-> "Our systems are currently busy. Please try again in a moment."]
TechnicalReply ==
    [status |-> 200,
     reply |-> "Apologies, I'm experiencing technical difficulties. Please contact help@ump.ac.za for immediate support."]
AiReply == [status |-> 200, reply |-> "ai_message"]

Exceptions == {"HTTPException400", "AttributeError", "TypeError", "KeyError"}

OuterExcept(exc) == TechnicalReply

RequestExceptions == {"Timeout", "ConnectionError", "HTTPError"}

CompletionOutcomes == RequestExceptions \cup {"ok", "bad_body"}

CompletionReplyTimeoutOnly(o) ==
    IF o = "Timeout" THEN BusyReply
    ELSE IF o = "ok" THEN AiReply
    ELSE OuterExcept("RequestException")

CompletionReply(o) ==
    IF o \in RequestExceptions THEN BusyReply
    ELSE IF o = "ok" THEN AiReply
    ELSE OuterExcept("KeyError")

(* ------------------------------- actions ------------------------------- *)
SubIntentBranches == {"computer", "seat", "announcement", "hours", "study_room",
                      "computer_duplicate", "room"}

Init ==
    /\ pc = "idle"
    /\ message = <<>>
    /\ context = NoContext
    /\ messages = <<>>
    /\ library_context = NoEnrichment
    /\ libLog = <<>>
    /\ payloads = <<>>
    /\ completion = "not_called"
    /\ response = NoResponse

ReceiveFrom(M, C) ==
    /\ pc = "idle"
    /\ \E m \in M, c \in C :
         /\ message' = m
         /\ context' = c
    /\ pc' = "received"
    /\ UNCHANGED <<messages, library_context, libLog, payloads, completion, response>>

Raise(exc) ==
    /\ response' = OuterExcept(exc)
    /\ pc' = "done"

Prepare ==
    /\ pc = "received"
    /\ IF IsBlank(message)
       THEN /\ Raise("HTTPException400")
            /\ UNCHANGED <<messages, library_context>>
       ELSE /\ messages' = <<SCCS_SYSTEM_PROMPT>> \o
                             (IF context.present /\ context.entries # <<>>
                              THEN LastN(context.entries, ContextWindow) ELSE <<>>)
            /\ library_context' = NoEnrichment
            /\ pc' = IF GatePasses(ToLower(message)) /\ SubIntent(ToLower(message)) # "none"
                     THEN SubIntent(ToLower(message)) ELSE "assemble"
            /\ UNCHANGED response
    /\ UNCHANGED <<message, context, libLog, payloads, completion>>

PrimaryItems(raw) ==
    IF raw.kind = "dict_items" /\ raw.records # <<>> THEN raw.records
    ELSE IF raw.kind = "list" THEN raw.records
    ELSE <<>>

BookPrimaryWith(S) ==
    /\ pc = "book"
    /\ \E raw \in S["books"] :
         /\ libLog' = Append(libLog, [request |-> BooksQuery(message), result |-> raw])
         /\ IF PrimaryItems(raw) # <<>>
            THEN /\ library_context' = FormatBooks(PrimaryItems(raw))
                 /\ pc' = "assemble"
            ELSE /\ library_context' = library_context
                 /\ pc' = "book_fallback"
    /\ UNCHANGED <<message, context, messages, payloads, completion, response>>

BookFallbackWith(S) ==
    /\ pc = "book_fallback"
    /\ \E raw2 \in S["books"] :
         /\ libLog' = Append(libLog, [request |-> BooksFirstPage, result |-> raw2])
         /\ IF raw2.kind \in {"none", "list", "scalar"}
            THEN /\ Raise("AttributeError")
                 /\ UNCHANGED library_context
            ELSE /\ library_context' = IF raw2.records # <<>>
                                       THEN FormatBooks(raw2.records) ELSE Clarification
                 /\ pc' = "assemble"
                 /\ UNCHANGED response
    /\ UNCHANGED <<message, context, messages, payloads, completion>>

FetchSubIntentWith(S) ==
    /\ pc \in SubIntentBranches
    /\ LET query == SubIntentQuery(pc, get_campus_id(message)) IN
       \E r \in S[query.path] :
         /\ libLog' = Append(libLog, [request |-> query, result |-> r])
         /\ IF ~Truthy(r)
            THEN /\ pc' = "assemble"
                 /\ UNCHANGED <<library_context, response>>
            ELSE IF r.kind # "list"
            THEN /\ Raise("TypeError")
                 /\ UNCHANGED library_context
            ELSE /\ library_context' = Format(pc, r.records)
                 /\ pc' = "assemble"
                 /\ UNCHANGED response
    /\ UNCHANGED <<message, context, messages, payloads, completion>>

CompletionCall ==
    /\ pc = "assemble"
    /\ messages' = messages \o
                     (IF library_context.header # "" THEN <<EnrichmentMessage(library_context)>> ELSE <<>>)
                     \o <<UserMessage(message)>>
    /\ payloads' = Append(payloads, messages')
    /\ completion' = "in_flight"
    /\ pc' = "awaiting"
    /\ UNCHANGED <<message, context, library_context, libLog, response>>

CompletionReturn ==
    /\ pc = "awaiting"
    /\ \E o \in CompletionOutcomes :
         /\ completion' = o
         /\ response' = CompletionReply(o)
    /\ pc' = "done"
    /\ UNCHANGED <<message, context, messages, library_context, libLog, payloads>>

Receive == ReceiveFrom(SampleMessages, Contexts)
BookPrimary == BookPrimaryWith(Shapes)
BookFallback == BookFallbackWith(Shapes)
FetchSubIntent == FetchSubIntentWith(Shapes)

Next ==
    \/ Receive
    \/ Prepare
    \/ BookPrimary
    \/ BookFallback
    \/ FetchSubIntent
    \/ CompletionCall
    \/ CompletionReturn

Spec == Init /\ [][Next]_vars

RouterReceive == ReceiveFrom(WordMessages, {NoContext})
RouterBookPrimary == BookPrimaryWith(RouterShapes)
RouterBookFallback == BookFallbackWith(RouterShapes)
RouterFetchSubIntent == FetchSubIntentWith(RouterShapes)

RouterNext ==
    \/ RouterReceive
    \/ Prepare
    \/ RouterBookPrimary
    \/ RouterBookFallback
    \/ RouterFetchSubIntent
    \/ CompletionCall
    \/ CompletionReturn

SpecRouter == Init /\ [][RouterNext]_vars

(* ======================= properties of the handler ====================== *)
Finished == pc = "done"

PastRouting == pc \in {"assemble", "awaiting", "done"}

LastResult == libLog[Len(libLog)].result

ItemCount(r) == IF r.kind \in {"list", "dict_items"} THEN Len(r.records) ELSE 0

OnBookPath == libLog # <<>> /\ libLog[1].request.path = "books"

HasEnrichment(p) == \E j \in 1..Len(p) : p[j].kind = "enrichment"

(* C1: a request whose message is empty or whitespace-only is answered     *)
(* with a 400-class status and makes no library or completion call.        *)
C1_BlankIs400 ==
    (Finished /\ IsBlank(message)) =>
        /\ response.status \in 400..499
        /\ libLog = <<>>
        /\ payloads = <<>>

(* C2: a library call that returns the no-data sentinel None never ends    *)
(* the request: the handler still issues the completion call.              *)
C2_NoDataNotFatal ==
    (Finished /\ ~IsBlank(message) /\ libLog # <<>> /\ LastResult = NoData) =>
        /\ Len(payloads) = 1
        /\ completion # "not_called"

(* C3: on the book path a primary result with zero items is followed by    *)
(* exactly one fallback call for page 1, 5 per page, and a primary result  *)
(* with items by none; a fallback with zero items of any empty shape       *)
(* makes the clarification request the enrichment, which is injected.      *)
EmptyShapes == {ListOf(<<>>), DictItems(<<>>), DictEmpty, DictOther}

C3_FallbackThenClarify ==
    (OnBookPath /\ (PastRouting \/ pc = "book_fallback")) =>
        IF ItemCount(libLog[1].result) > 0
        THEN Len(libLog) = 1
        ELSE \/ pc = "book_fallback" /\ Len(libLog) = 1
             \/ /\ pc # "book_fallback"
                /\ Len(libLog) = 2
                /\ libLog[2].request = BooksFirstPage
                /\ libLog[2].result \in EmptyShapes =>
                     /\ library_context = Clarification
                     /\ Finished => /\ Len(payloads) = 1
                                    /\ HasEnrichment(payloads[1])

(* C4: when the completion call fails by timeout, other transport failure  *)
(* or non-2xx status, the response is HTTP 200 with exactly the "busy"     *)
(* reply, whatever enrichment was produced.                                *)
C4_CompletionFailureIsBusy ==
    (Finished /\ completion \in {"Timeout", "ConnectionError", "HTTPError"}) =>
        response = [status |-> 200,
                    reply |-> "Our systems are currently busy. Please try again in a moment."]

C4_Witness ==
    /\ Finished
    /\ completion = "Timeout"
    /\ library_context # NoEnrichment
    /\ response.reply = "Our systems are currently busy. Please try again in a moment."

(* C5: every payload sent to the completion service is the system prompt,  *)
(* then the last 3 context entries in order, then one system-role          *)
(* enrichment message iff the enrichment text is non-empty, then the       *)
(* user's message last.                                                    *)
PayloadShape(p) ==
    LET n == IF context.present THEN Len(context.entries) ELSE 0
        k == IF n < 3 THEN n ELSE 3
        e == IF library_context = NoEnrichment THEN 0 ELSE 1
    IN /\ Len(p) = 1 + k + e + 1
       /\ p[1].kind = "prompt" /\ p[1].role = "system"
       /\ \A j \in 1..k : p[1 + j] = context.entries[n - k + j]
       /\ e = 1 => /\ p[k + 2].kind = "enrichment"
                   /\ p[k + 2].role = "system"
                   /\ p[k + 2].block = library_context
       /\ Cardinality({j \in 1..Len(p) : p[j].kind = "enrichment"}) = e
       /\ p[Len(p)].kind = "user" /\ p[Len(p)].role = "user" /\ p[Len(p)].text = message

C5_ConversationOrder == \A i \in 1..Len(payloads) : PayloadShape(payloads[i])

C5_Witness ==
    /\ Len(payloads) = 1
    /\ context.present /\ Len(context.entries) > 3
    /\ Len(payloads[1]) = 6
    /\ payloads[1][5].kind = "enrichment"

(* C6: every request with a non-blank message issues exactly one           *)
(* completion call, whatever its library calls returned.                   *)
C6_ExactlyOneCompletionCall ==
    (Finished /\ ~IsBlank(message)) => Len(payloads) = 1

(* C7: the sub-intent dispatched is the first, in the order book/textbook, *)
(* computer, seat, announcement/news, hour/open/close, study room/group    *)
(* study, room/venue, whose trigger occurs in the lowercased message; no   *)
(* other endpoint is queried and the second computer branch never runs.    *)
PriorityTable ==
    << [triggers |-> {kw_book, kw_textbook}, path |-> "books", scoped |-> FALSE],
       [triggers |-> {kw_computer}, path |-> "computers", scoped |-> TRUE],
       [triggers |-> {kw_seat}, path |-> "seats/availability", scoped |-> TRUE],
       [triggers |-> {kw_announcement, kw_news}, path |-> "announcements", scoped |-> FALSE],
       [triggers |-> {kw_hour, kw_open, kw_close}, path |-> "hours", scoped |-> TRUE],
       [triggers |-> {kw_study_room, kw_group_study}, path |-> "study_rooms", scoped |-> FALSE],
       [triggers |-> {kw_room, kw_venue}, path |-> "rooms", scoped |-> TRUE] >>

Triggered(i) == \E t \in PriorityTable[i].triggers : Contains(ToLower(message), t)

GateWordPresent ==
    \/ Contains(ToLower(message), kw_book)
    \/ Contains(ToLower(message), kw_library)
    \/ Contains(ToLower(message), kw_seat)
    \/ Contains(ToLower(message), kw_computer)
    \/ Contains(ToLower(message), kw_room)
    \/ Contains(ToLower(message), kw_announcement)
    \/ Contains(ToLower(message), kw_hour)
    \/ Contains(ToLower(message), kw_study_room)
    \/ Contains(ToLower(message), kw_venue)

ExpectedCampus == IF Contains(ToLower(message), kw_siyabuswa) THEN 2 ELSE 1

C7_FirstMatchWins ==
    /\ pc # "computer_duplicate"
    /\ (PastRouting /\ ~IsBlank(message) /\ GateWordPresent) =>
         IF \E i \in 1..7 : Triggered(i)
         THEN LET first == CHOOSE i \in 1..7 : Triggered(i) /\ \A j \in 1..(i - 1) : ~Triggered(j)
              IN /\ libLog # <<>>
                 /\ \A n \in 1..Len(libLog) :
                      /\ libLog[n].request.path = PriorityTable[first].path
                      /\ libLog[n].request.campus =
                           IF PriorityTable[first].scoped THEN ExpectedCampus ELSE 0
         ELSE libLog = <<>>

C7_Witness ==
    /\ Finished
    /\ Contains(ToLower(message), kw_computer)
    /\ Contains(ToLower(message), kw_seat) \/ Contains(ToLower(message), kw_room)
    /\ Len(libLog) = 1
    /\ libLog[1].request.path = "computers"

(* C8: without a gate keyword in the lowercased message no library call is *)
(* made and no enrichment message is sent, even when a non-gate trigger    *)
(* (news, open, close, group study) is present; a library call implies     *)
(* the gate passed.                                                        *)
C8_GateGuardsLibrary ==
    /\ (~GateWordPresent) =>
         /\ libLog = <<>>
         /\ \A i \in 1..Len(payloads) : ~HasEnrichment(payloads[i])
         /\ pc \in {"idle", "received", "assemble", "awaiting", "done"}
    /\ libLog # <<>> => GateWordPresent

C8_Witness ==
    /\ Finished
    /\ ~GateWordPresent
    /\ \E t \in {kw_news, kw_open, kw_close, kw_group_study} : Contains(ToLower(message), t)
    /\ Len(payloads) = 1
    /\ libLog = <<>>

FreeCount(recs) == Cardinality({i \in 1..Len(recs) : recs[i] = "free"})

RECURSIVE Tokens(_)
Tokens(s) ==
    IF s = <<>> THEN <<>>
    ELSE IF Head(s) \notin WordChar THEN Tokens(Tail(s))
    ELSE LET stop == IF \E i \in 1..Len(s) : s[i] \notin WordChar
                     THEN (CHOOSE i \in 1..Len(s) :
                             s[i] \notin WordChar /\ \A j \in 1..(i - 1) : s[j] \in WordChar) - 1
                     ELSE Len(s)
         IN <<SubSeq(s, 1, stop)>> \o Tokens(SubSeq(s, stop + 1, Len(s)))

IsCodeToken(t) ==
    /\ Len(t) = 7
    /\ \A k \in 1..3 : t[k] \in Upper
    /\ \A k \in 4..7 : t[k] \in Digit

CodeTokens(s) == SelectSeq(Tokens(s), IsCodeToken)

PrimaryBooksCall == libLog[1].request

====
